---------------------------- MODULE Spec2Model ----------------------------
(***************************************************************************)
(* State-machine model of the GetaiCertified API (src/main.py,             *)
(* src/schemas.py): bearer-token issue/validation, identity creation,      *)
(* enrollment, lesson progress with the weekly unlock rule, certificates   *)
(* and the dashboard.  Every call a handler makes on the document store is *)
(* one atomic step; a handler is the sequence of its store calls, so the   *)
(* sync handlers that FastAPI runs on its thread pool interleave between   *)
(* store calls and not inside one.                                         *)
(*                                                                         *)
(* Strings that the code takes apart (emails, Google id_tokens, names) are *)
(* sequences of one-character strings.  lesson_id values are opaque and    *)
(* are numbered.                                                           *)
(***************************************************************************)
EXTENDS Integers, Sequences, FiniteSets

VARIABLES
    dbUp,         \* database.db is not None (fixed when the process starts)
    now,          \* datetime.utcnow(), in minutes
    user,         \* collection "user": documents in insertion order
    enrollment,   \* collection "enrollment"
    progress,     \* collection "progress"
    certificate,  \* collection "certificate"
    oid,          \* number of ObjectId() values generated so far
    issued,       \* tokens returned by signup, login and google_auth
    reqs,         \* the requests in flight: slot -> handler position and locals
    last,         \* the response most recently sent
    nreq,         \* number of requests received so far
    submitted,    \* per (email, slug): lesson ids of the complete_lesson calls applied
    granted       \* per (email, slug): sum of the xp rewards of those calls

vars == <<dbUp, now, user, enrollment, progress, certificate, oid, issued,
          reqs, last, nreq, submitted, granted>>

stores == <<enrollment, progress, certificate>>

-----------------------------------------------------------------------------
(* Bounds of the model *)

\* handler slots: requests that can be in flight together
MaxReqs == 2
\* requests received in a behaviour of SpecAuth
MaxAuthCalls == 3
\* requests received in a behaviour of SpecProg
MaxProgCalls == 5
\* requests received in a behaviour of SpecApi
MaxApiCalls == 4
\* lesson ids 1..MaxApiLesson in SpecApi
MaxApiLesson == 2
\* requests received in a behaviour of SpecSeq
MaxSeqCalls == 10
\* lesson ids 1..MaxProgLesson in SpecProg
MaxProgLesson == 4
\* lesson ids 1..MaxSeqLesson in SpecSeq
MaxSeqLesson == 9
\* clock advances
MaxTicks == 3

(* Program constants *)

ACCESS_TOKEN_EXPIRE_MINUTES == 10080
SECRET_KEY == "dev-secret-change-me"
DefaultXp == 10
MaxWeek == 3
LessonsPerWeek == 4
\* a document that has no week_unlocked field
Missing == 0
TickMinutes == ACCESS_TOKEN_EXPIRE_MINUTES \div 2   \* minutes per clock advance

-----------------------------------------------------------------------------
(* Strings *)

Al == <<"a", "l", "@", "x">>
Bo == <<"b", "o", "@", "x">>
Emails == {Al, Bo}
Slug == "3-week-ai"
NoStr == <<>>

Upper(c) == CASE c = "a" -> "A" [] c = "b" -> "B" [] c = "l" -> "L"
              [] c = "o" -> "O" [] c = "x" -> "X" [] OTHER -> c
Lower(c) == CASE c = "A" -> "a" [] c = "B" -> "b" [] c = "L" -> "l"
              [] c = "O" -> "o" [] c = "X" -> "x" [] OTHER -> c
IsAlpha(c) == Upper(c) # c \/ Lower(c) # c

\* str.title(): the first letter of every run of letters upper-cased, the others lower-cased
Title(s) == [i \in 1..Len(s) |->
               IF i = 1 \/ ~IsAlpha(s[i - 1]) THEN Upper(s[i]) ELSE Lower(s[i])]

Contains(s, c) == \E i \in 1..Len(s) : s[i] = c

\* s.split("@")[0]
LocalPart(s) ==
    IF Contains(s, "@")
    THEN SubSeq(s, 1, (CHOOSE i \in 1..Len(s) : s[i] = "@" /\ \A j \in 1..(i - 1) : s[j] # "@") - 1)
    ELSE s

RECURSIVE LStrip(_)
LStrip(s) == IF s # <<>> /\ Head(s) = " " THEN LStrip(Tail(s)) ELSE s
RECURSIVE RStrip(_)
RStrip(s) == IF s # <<>> /\ s[Len(s)] = " " THEN RStrip(SubSeq(s, 1, Len(s) - 1)) ELSE s
\* str.strip()
Strip(s) == RStrip(LStrip(s))

-----------------------------------------------------------------------------
(* Document store: find_one, insert, update_one on one collection *)

Matching(coll, e, s) == {i \in 1..Len(coll) : coll[i].user_email = e /\ coll[i].course_slug = s}
HasDoc(coll, e, s) == Matching(coll, e, s) # {}
First(S) == CHOOSE i \in S : \A j \in S : i <= j
\* find_one({"user_email": e, "course_slug": s}); only called when HasDoc
FindOne(coll, e, s) == coll[First(Matching(coll, e, s))]

UsersWith(e) == {i \in 1..Len(user) : user[i].email = e}
HasUser(e) == UsersWith(e) # {}
FindUser(e) == user[First(UsersWith(e))]

\* prog.get("lessons_completed", []) if prog else []
LessonsOfDoc(coll, e, s) == IF HasDoc(coll, e, s) THEN FindOne(coll, e, s).lessons_completed ELSE {}

\* update_one(filter, update, upsert=True): the first matching document
\* becomes updated (the update applied to it), and when none matches ins is
\* inserted
Upsert(coll, e, s, updated, ins) ==
    IF HasDoc(coll, e, s)
    THEN [coll EXCEPT ![First(Matching(coll, e, s))] = updated]
    ELSE Append(coll, ins)

\* update_one(filter, update): no document is created
UpdateOne(coll, e, s, updated) ==
    IF HasDoc(coll, e, s)
    THEN [coll EXCEPT ![First(Matching(coll, e, s))] = updated]
    ELSE coll

\* database.create_document(collection, document)
CreateDocument(coll, doc) == Append(coll, doc)

-----------------------------------------------------------------------------
(* Token service *)

\* payload.get("sub") is None
NoSub == <<"?">>
\* HS256 signature of the payload under a key
Sign(sub, exp, key) == <<sub, exp, key>>

NoToken == [form |-> "none", sub |-> NoStr, exp |-> 0, sig |-> <<>>]
Garbage == [form |-> "garbage", sub |-> NoStr, exp |-> 0, sig |-> <<>>]

\* create_access_token({"sub": sub}) at the current time
create_access_token(sub) ==
    [form |-> "jwt", sub |-> sub, exp |-> now + ACCESS_TOKEN_EXPIRE_MINUTES,
     sig |-> Sign(sub, now + ACCESS_TOKEN_EXPIRE_MINUTES, SECRET_KEY)]

\* Mutant of JwtDecodes: the expiry is not verified
JwtDecodes_NoExpiry(tok) ==
    /\ tok.form = "jwt"
    /\ tok.sig = Sign(tok.sub, tok.exp, SECRET_KEY)

\* jwt.decode(token, SECRET_KEY, algorithms=[ALGORITHM]) raises no JWTError:
\* the token parses, its signature verifies and exp is not in the past
JwtDecodes(tok) ==
    /\ tok.form = "jwt"
    /\ tok.sig = Sign(tok.sub, tok.exp, SECRET_KEY)
    /\ ~(tok.exp < now)

NoUser == [name |-> NoStr, email |-> NoStr, points |-> 0, badges |-> {}]

\* get_current_user(token): the user document, or NoUser when it raises
\* credentials_exception (401)
get_current_user(tok) ==
    IF JwtDecodes(tok) /\ tok.sub # NoSub /\ dbUp /\ HasUser(tok.sub)
    THEN FindUser(tok.sub)
    ELSE NoUser

\* What a client can do to a token it holds: change a claim and keep the
\* signature, or sign the same claims with a key of its own
Tampered(t) ==
    {[t EXCEPT !.sub = e] : e \in Emails \ {t.sub}}
      \cup {[t EXCEPT !.exp = t.exp + ACCESS_TOKEN_EXPIRE_MINUTES]}
      \cup {[t EXCEPT !.sig = Sign(t.sub, t.exp, "guess")]}
Presentable == issued \cup UNION {Tampered(t) : t \in issued} \cup {Garbage}

-----------------------------------------------------------------------------
(* Requests and responses *)

Slots == 1..MaxReqs
Idle == [op |-> "idle", pc |-> "idle", email |-> NoStr, slug |-> "", name |-> NoStr,
         lesson |-> 0, xp |-> 0, cur |-> NoStr, lcount |-> 0]

NoResp == [op |-> "none", status |-> "none", email |-> NoStr, slug |-> "", week |-> 0,
           tok |-> NoToken, at |-> 0, sub |-> NoStr]

Resp(op, st, e) == [NoResp EXCEPT !.op = op, !.status = st, !.email = e]

\* A request is taken by the first idle slot
Free(i) == reqs[i] = Idle /\ \A j \in 1..(i - 1) : reqs[j] # Idle

Finish(i, r) == /\ reqs' = [reqs EXCEPT ![i] = Idle]
                /\ last' = r

Pairs == Emails \X {Slug}

Init ==
    /\ dbUp \in BOOLEAN
    /\ now = 0
    /\ user = <<>>
    /\ enrollment = <<>>
    /\ progress = <<>>
    /\ certificate = <<>>
    /\ oid = 0
    /\ issued = {}
    /\ reqs = [i \in Slots |-> Idle]
    /\ last = NoResp
    /\ nreq = 0
    /\ submitted = [p \in Pairs |-> {}]
    /\ granted = [p \in Pairs |-> 0]

-----------------------------------------------------------------------------
(* Auth handlers: signup, login, google_auth, me *)

NewUser(name, email) == [name |-> name, email |-> email, points |-> 0, badges |-> {}]

\* The lookup "existing = db["user"].find_one({"email": email}) if db else None"
\* of signup, login and google_auth, and the branch taken when a user exists:
\* a token for the email is returned and nothing is written
Lookup(i, op, email, name) ==
    /\ Free(i)
    /\ nreq' = nreq + 1
    /\ IF dbUp /\ HasUser(email)
       THEN /\ issued' = issued \cup {create_access_token(FindUser(email).email)}
            /\ last' = Resp(op, "ok", FindUser(email).email)
            /\ reqs' = reqs
       ELSE /\ reqs' = [reqs EXCEPT ![i] = [Idle EXCEPT !.op = op, !.pc = "insert",
                                                     !.email = email, !.name = name]]
            /\ UNCHANGED <<issued, last>>
    /\ UNCHANGED <<dbUp, now, user, stores, oid, submitted, granted>>

\* The branch taken when the lookup found nothing: create_document("user", user);
\* failed is the status sent when create_document raises
Insert(i, op, failed) ==
    /\ reqs[i].op = op /\ reqs[i].pc = "insert"
    /\ IF dbUp
       THEN /\ user' = CreateDocument(user, NewUser(reqs[i].name, reqs[i].email))
            /\ issued' = issued \cup {create_access_token(reqs[i].email)}
            /\ Finish(i, Resp(op, "ok", reqs[i].email))
       ELSE /\ Finish(i, Resp(op, failed, reqs[i].email))
            /\ UNCHANGED <<user, issued>>
    /\ UNCHANGED <<dbUp, now, stores, oid, nreq, submitted, granted>>

\* A request refused before any store call
Refuse(i, op, st) ==
    /\ Free(i)
    /\ nreq' = nreq + 1
    /\ last' = Resp(op, st, NoStr)
    /\ UNCHANGED <<dbUp, now, user, stores, oid, issued, reqs, submitted, granted>>

\* the status sent when create_document raises because the store is unavailable
CreateDocumentFails == "NotConfigured"

signup_find(i, name, email) == Lookup(i, "signup", email, name)
signup_insert(i) == Insert(i, "signup", CreateDocumentFails)

\* email is NoStr when neither the form nor the JSON body carries one
login_find(i, email) ==
    IF email = NoStr
    THEN Refuse(i, "login", "BadRequest")
    ELSE Lookup(i, "login", email, Title(LocalPart(email)))
login_insert(i) == Insert(i, "login", CreateDocumentFails)

\* every exception raised in google_auth, create_document's included, is
\* answered 400
google_find(i, id_token) ==
    IF ~Contains(id_token, "@") \/ Strip(id_token) = NoStr
    THEN Refuse(i, "google", "BadRequest")
    ELSE Lookup(i, "google", Strip(id_token), Title(LocalPart(Strip(id_token))))
google_insert(i) == Insert(i, "google", "BadRequest")

\* GET /api/me: get_current_user and nothing else
me(i, tok) ==
    /\ Free(i)
    /\ nreq' = nreq + 1
    /\ last' = IF get_current_user(tok) = NoUser
               THEN [Resp("me", "Unauthorized", NoStr) EXCEPT !.tok = tok, !.at = now]
               ELSE [Resp("me", "ok", get_current_user(tok).email) EXCEPT
                       !.tok = tok, !.at = now, !.sub = get_current_user(tok).email]
    /\ UNCHANGED <<dbUp, now, user, stores, oid, issued, reqs, submitted, granted>>

\* The clock advances
Tick ==
    /\ now < MaxTicks * TickMinutes
    /\ now' = now + TickMinutes
    /\ UNCHANGED <<dbUp, user, stores, oid, issued, reqs, last, nreq, submitted, granted>>

Names == {<<"A", "l">>, <<"Z">>}
IdTokens == {<<" ">> \o Bo \o <<" ">>, <<"b", "o">>}

NextAuth ==
    \/ /\ nreq < MaxAuthCalls
       /\ \E i \in Slots :
            \/ \E n \in Names, e \in Emails : signup_find(i, n, e)
            \/ \E e \in Emails \cup {NoStr} : login_find(i, e)
            \/ \E t \in IdTokens : google_find(i, t)
            \/ \E t \in Presentable : me(i, t)
    \/ \E i \in Slots : signup_insert(i)
    \/ \E i \in Slots : login_insert(i)
    \/ \E i \in Slots : google_insert(i)
    \/ Tick

SpecAuth == Init /\ [][NextAuth]_vars

-----------------------------------------------------------------------------
(* Enrollment, progress and certificates *)

Min(a, b) == IF a < b THEN a ELSE b

\* Mutant of WeekFor: the division rounds up
WeekFor_RoundUp(lcount) ==
    Min(MaxWeek, 1 + (lcount + LessonsPerWeek - 1) \div LessonsPerWeek)

\* week_unlocked = min(3, 1 + lcount // 4)
WeekFor(lcount) == Min(MaxWeek, 1 + lcount \div LessonsPerWeek)

NewEnrollment(e, s) == [user_email |-> e, course_slug |-> s, status |-> "enrolled"]
\* {"$setOnInsert": {"lessons_completed": [], "week_unlocked": 1, "xp": 0}}
NewProgress(e, s) ==
    [user_email |-> e, course_slug |-> s, lessons_completed |-> {}, week_unlocked |-> 1, xp |-> 0]
\* the document an upsert of {"$addToSet": ..., "$inc": ...} inserts: no week_unlocked
FirstProgress(e, s, lesson, xp) ==
    [user_email |-> e, course_slug |-> s, lessons_completed |-> {lesson},
     week_unlocked |-> Missing, xp |-> xp]
NewCertificate(e, s, id) ==
    [user_email |-> e, course_slug |-> s, certificate_id |-> id, verified |-> TRUE]

\* {"$setOnInsert": ...} on a document that exists
Keep(d) == d
\* Mutant of AddLesson: a lesson already completed grants no xp
AddLesson_Once(d, lesson, xp) ==
    IF lesson \in d.lessons_completed THEN d
    ELSE [d EXCEPT !.lessons_completed = @ \cup {lesson}, !.xp = @ + xp]

\* {"$addToSet": {"lessons_completed": lesson}, "$inc": {"xp": xp}}
AddLesson(d, lesson, xp) ==
    [d EXCEPT !.lessons_completed = @ \cup {lesson}, !.xp = @ + xp]
\* {"$set": {"week_unlocked": w}}
SetWeek(d, w) == [d EXCEPT !.week_unlocked = w]
\* {"$set": {"certificate_id": id, "verified": True}}
SetCertificate(d, id) == [d EXCEPT !.certificate_id = id, !.verified = TRUE]

\* Depends(get_current_user) of enroll, complete_lesson and issue_certificate:
\* it runs before the handler's body and answers 401 itself
Authenticate(i, op, pc, tok, email, slug, lesson, xp) ==
    /\ Free(i)
    /\ nreq' = nreq + 1
    /\ IF get_current_user(tok) = NoUser
       THEN /\ last' = [Resp(op, "Unauthorized", email) EXCEPT !.slug = slug]
            /\ reqs' = reqs
       ELSE /\ reqs' = [reqs EXCEPT ![i] =
                          [Idle EXCEPT !.op = op, !.pc = pc, !.email = email, !.slug = slug,
                                       !.lesson = lesson, !.xp = xp,
                                       !.cur = get_current_user(tok).email]]
            /\ last' = last
    /\ UNCHANGED <<dbUp, now, user, stores, oid, issued, submitted, granted>>

\* Mutant of Checks: the token subject is not compared with the body's email
Checks_NoSubject(r) == IF ~dbUp THEN "NotConfigured" ELSE "ok"

\* The two checks that open the body of enroll, complete_lesson and
\* issue_certificate: "ok" when both pass
Checks(r) ==
    IF ~dbUp THEN "NotConfigured"
    ELSE IF r.cur # r.email THEN "Forbidden"
    ELSE "ok"

Reply(r, st) == [Resp(r.op, st, r.email) EXCEPT !.slug = r.slug]

enroll_auth(i, tok, email, slug) == Authenticate(i, "enroll", "enrollment", tok, email, slug, 0, 0)

\* the checks and db["enrollment"].update_one(..., upsert=True)
enroll_enrollment(i) ==
    /\ reqs[i].op = "enroll" /\ reqs[i].pc = "enrollment"
    /\ IF Checks(reqs[i]) # "ok"
       THEN /\ Finish(i, Reply(reqs[i], Checks(reqs[i])))
            /\ UNCHANGED enrollment
       ELSE /\ enrollment' = Upsert(enrollment, reqs[i].email, reqs[i].slug,
                                    Keep(FindOne(enrollment, reqs[i].email, reqs[i].slug)),
                                    NewEnrollment(reqs[i].email, reqs[i].slug))
            /\ reqs' = [reqs EXCEPT ![i].pc = "progress"]
            /\ last' = last
    /\ UNCHANGED <<dbUp, now, user, progress, certificate, oid, issued, nreq, submitted, granted>>

\* Mutant of enroll_progress: $set in place of $setOnInsert
enroll_progress_set(i) ==
    /\ reqs[i].op = "enroll" /\ reqs[i].pc = "progress"
    /\ progress' = Upsert(progress, reqs[i].email, reqs[i].slug,
                          NewProgress(reqs[i].email, reqs[i].slug),
                          NewProgress(reqs[i].email, reqs[i].slug))
    /\ Finish(i, Reply(reqs[i], "ok"))
    /\ UNCHANGED <<dbUp, now, user, enrollment, certificate, oid, issued, nreq, submitted, granted>>

\* db["progress"].update_one(..., upsert=True) and the return
enroll_progress(i) ==
    /\ reqs[i].op = "enroll" /\ reqs[i].pc = "progress"
    /\ progress' = Upsert(progress, reqs[i].email, reqs[i].slug,
                          Keep(FindOne(progress, reqs[i].email, reqs[i].slug)),
                          NewProgress(reqs[i].email, reqs[i].slug))
    /\ Finish(i, Reply(reqs[i], "ok"))
    /\ UNCHANGED <<dbUp, now, user, enrollment, certificate, oid, issued, nreq, submitted, granted>>

complete_auth(i, tok, email, slug, lesson, xp) ==
    Authenticate(i, "complete", "update", tok, email, slug, lesson, xp)

\* the checks and the update_one of $addToSet and $inc, upsert=True
complete_update(i) ==
    /\ reqs[i].op = "complete" /\ reqs[i].pc = "update"
    /\ IF Checks(reqs[i]) # "ok"
       THEN /\ Finish(i, Reply(reqs[i], Checks(reqs[i])))
            /\ UNCHANGED <<progress, submitted, granted>>
       ELSE /\ progress' = Upsert(progress, reqs[i].email, reqs[i].slug,
                                  AddLesson(FindOne(progress, reqs[i].email, reqs[i].slug),
                                            reqs[i].lesson, reqs[i].xp),
                                  FirstProgress(reqs[i].email, reqs[i].slug,
                                                reqs[i].lesson, reqs[i].xp))
            /\ submitted' = [submitted EXCEPT ![<<reqs[i].email, reqs[i].slug>>] =
                                                 @ \cup {reqs[i].lesson}]
            /\ granted' = [granted EXCEPT ![<<reqs[i].email, reqs[i].slug>>] = @ + reqs[i].xp]
            /\ reqs' = [reqs EXCEPT ![i].pc = "find"]
            /\ last' = last
    /\ UNCHANGED <<dbUp, now, user, enrollment, certificate, oid, issued, nreq>>

\* Mutant of complete_find: the lesson of the call is counted once more
complete_find_plus(i) ==
    /\ reqs[i].op = "complete" /\ reqs[i].pc = "find"
    /\ reqs' = [reqs EXCEPT ![i].pc = "set",
                            ![i].lcount =
                               1 + Cardinality(LessonsOfDoc(progress, reqs[i].email, reqs[i].slug))]
    /\ UNCHANGED <<dbUp, now, user, stores, oid, issued, last, nreq, submitted, granted>>

\* prog = db["progress"].find_one(...); lcount = len(prog.get("lessons_completed", []))
complete_find(i) ==
    /\ reqs[i].op = "complete" /\ reqs[i].pc = "find"
    /\ reqs' = [reqs EXCEPT ![i].pc = "set",
                            ![i].lcount =
                               Cardinality(LessonsOfDoc(progress, reqs[i].email, reqs[i].slug))]
    /\ UNCHANGED <<dbUp, now, user, stores, oid, issued, last, nreq, submitted, granted>>

\* the update_one of {"$set": {"week_unlocked": week_unlocked}} and the return
complete_set(i) ==
    /\ reqs[i].op = "complete" /\ reqs[i].pc = "set"
    /\ progress' = UpdateOne(progress, reqs[i].email, reqs[i].slug,
                             SetWeek(FindOne(progress, reqs[i].email, reqs[i].slug),
                                     WeekFor(reqs[i].lcount)))
    /\ Finish(i, [Reply(reqs[i], "ok") EXCEPT !.week = WeekFor(reqs[i].lcount)])
    /\ UNCHANGED <<dbUp, now, user, enrollment, certificate, oid, issued, nreq, submitted, granted>>

certificate_auth(i, tok, email, slug) ==
    Authenticate(i, "certificate", "issue", tok, email, slug, 0, 0)

\* the checks, cert_id = str(ObjectId()), the upsert and the return
issue_certificate(i) ==
    /\ reqs[i].op = "certificate" /\ reqs[i].pc = "issue"
    /\ IF Checks(reqs[i]) # "ok"
       THEN /\ Finish(i, Reply(reqs[i], Checks(reqs[i])))
            /\ UNCHANGED <<certificate, oid>>
       ELSE /\ oid' = oid + 1
            /\ certificate' = Upsert(certificate, reqs[i].email, reqs[i].slug,
                                     SetCertificate(FindOne(certificate, reqs[i].email,
                                                            reqs[i].slug), oid + 1),
                                     NewCertificate(reqs[i].email, reqs[i].slug, oid + 1))
            /\ Finish(i, Reply(reqs[i], "ok"))
    /\ UNCHANGED <<dbUp, now, user, enrollment, progress, issued, nreq, submitted, granted>>

\* (progress or {}).get("week_unlocked", 1)
WeekOf(d) == IF d.week_unlocked = Missing THEN 1 ELSE d.week_unlocked

\* GET /api/dashboard: reads only; every read is skipped when db is None and
\* the defaults are returned
dashboard(i, email, slug) ==
    /\ Free(i)
    /\ nreq' = nreq + 1
    /\ last' = [Resp("dashboard", "ok", email) EXCEPT
                  !.slug = slug,
                  !.week = IF dbUp /\ HasDoc(progress, email, slug)
                           THEN WeekOf(FindOne(progress, email, slug))
                           ELSE 1]
    /\ UNCHANGED <<dbUp, now, user, stores, oid, issued, reqs, submitted, granted>>

-----------------------------------------------------------------------------
(* Specifications *)

XpRewards == {DefaultXp, -DefaultXp}

\* another complete_lesson call for the pair is in flight
Overlaps(email, slug) ==
    \E j \in Slots : reqs[j].op = "complete" /\ reqs[j].email = email /\ reqs[j].slug = slug

\* lesson ids are opaque: a call submits a lesson already submitted for the
\* pair, or the next unused id
InFlight(email, slug) ==
    {reqs[j].lesson : j \in {k \in Slots : /\ reqs[k].op = "complete"
                                           /\ reqs[k].email = email
                                           /\ reqs[k].slug = slug}}
LessonIds(email, slug, max) ==
    1..Min(max, 1 + Cardinality(submitted[<<email, slug>>] \cup InFlight(email, slug)))

\* Every handler of the progression engine, with any token and either email,
\* overlapping freely
NextApi ==
    \/ /\ nreq < MaxApiCalls
       /\ \E i \in Slots, e \in Emails :
            \/ login_find(i, Al)
            \/ \E t \in issued \cup {Garbage} :
                 \/ enroll_auth(i, t, e, Slug)
                 \/ \E l \in LessonIds(e, Slug, MaxApiLesson), x \in XpRewards :
                      complete_auth(i, t, e, Slug, l, x)
                 \/ certificate_auth(i, t, e, Slug)
            \/ dashboard(i, e, Slug)
    \/ \E i \in Slots :
            \/ login_insert(i)
            \/ enroll_enrollment(i)
            \/ enroll_progress(i)
            \/ complete_update(i)
            \/ complete_find(i)
            \/ complete_set(i)
            \/ issue_certificate(i)

SpecApi == Init /\ [][NextApi]_vars

\* enroll and complete_lesson calls of one user on its own pair, overlapping
\* freely
NextProg ==
    \/ /\ nreq < MaxProgCalls
       /\ \E i \in Slots :
            \/ login_find(i, Al)
            \/ \E t \in issued :
                 \/ enroll_auth(i, t, Al, Slug)
                 \/ \E l \in LessonIds(Al, Slug, MaxProgLesson), x \in XpRewards :
                      complete_auth(i, t, Al, Slug, l, x)
    \/ \E i \in Slots :
            \/ login_insert(i)
            \/ enroll_enrollment(i)
            \/ enroll_progress(i)
            \/ complete_update(i)
            \/ complete_find(i)
            \/ complete_set(i)

SpecProg == Init /\ [][NextProg]_vars

\* complete_lesson calls for one pair, one after another, with enroll calls
\* overlapping them
NextSeq ==
    \/ /\ nreq < MaxSeqCalls
       /\ \E i \in Slots :
            \/ login_find(i, Al)
            \/ \E t \in issued :
                 \/ enroll_auth(i, t, Al, Slug)
                 \/ /\ ~Overlaps(Al, Slug)
                    /\ \E l \in LessonIds(Al, Slug, MaxSeqLesson) :
                         complete_auth(i, t, Al, Slug, l, DefaultXp)
    \/ \E i \in Slots :
            \/ login_insert(i)
            \/ enroll_enrollment(i)
            \/ enroll_progress(i)
            \/ complete_update(i)
            \/ complete_find(i)
            \/ complete_set(i)

SpecSeq == Init /\ [][NextSeq]_vars

-----------------------------------------------------------------------------
(* Properties *)

\* the rule as the specification states it: min(3, 1 + floor(n / 4))
UnlockRule(n) == IF 1 + n \div 4 < 3 THEN 1 + n \div 4 ELSE 3

Count(coll, e, s) == Cardinality(Matching(coll, e, s))
LessonsOf(e, s) == LessonsOfDoc(progress, e, s)
XpOf(e, s) == IF HasDoc(progress, e, s) THEN FindOne(progress, e, s).xp ELSE 0
StoredWeek(e, s) == IF HasDoc(progress, e, s) THEN WeekOf(FindOne(progress, e, s)) ELSE 1
Quiet == \A i \in Slots : reqs[i] = Idle
\* slot i takes a step
Acts(i) == reqs'[i] # reqs[i]

\* C1: for every pair the stored week_unlocked (read with the schema default
\* when the field is absent) is in 1..3 and no step decreases it, also when
\* complete_lesson calls for the pair overlap.
C1_WeekNeverDecreases ==
    [][\A p \in Pairs :
         /\ StoredWeek(p[1], p[2])' \in 1..3
         /\ StoredWeek(p[1], p[2])' >= StoredWeek(p[1], p[2])]_vars

\* C2: when the complete_lesson calls of a pair do not overlap, the week a
\* call returns is the stored week, and it is min(3, 1 + floor(n / 4)) for n
\* the number of distinct lesson ids completed so far: 2 at n = 4, 3 at n = 8
\* and at n = 9.
C2_SequentialWeek ==
    (last.op = "complete" /\ last.status = "ok" /\ ~Overlaps(last.email, last.slug)) =>
        LET n == Cardinality(submitted[<<last.email, last.slug>>]) IN
        /\ HasDoc(progress, last.email, last.slug)
        /\ LessonsOf(last.email, last.slug) = submitted[<<last.email, last.slug>>]
        /\ FindOne(progress, last.email, last.slug).week_unlocked = last.week
        /\ last.week = UnlockRule(n)
        /\ (n = 4 => last.week = 2)
        /\ (n = 8 => last.week = 3)
        /\ (n = 9 => last.week = 3)

C2_Witness ==
    /\ last.op = "complete" /\ last.status = "ok" /\ Quiet
    /\ Cardinality(LessonsOf(Al, Slug)) = 9
    /\ last.week = 3

\* C3 (stated by C3_EnrollIdempotent below): a pair never has more than one Enrollment or more than one Progress
\* record; once an enroll call has answered ok it has exactly one of each;
\* and a step of enroll that finds the pair's record leaves the collection
\* as it is (lessons_completed, week_unlocked and xp are not reset).
OnePerPair ==
    \A p \in Pairs : Count(enrollment, p[1], p[2]) <= 1 /\ Count(progress, p[1], p[2]) <= 1
EnrollMadeBoth ==
    (last.op = "enroll" /\ last.status = "ok") =>
        /\ Count(enrollment, last.email, last.slug) = 1
        /\ Count(progress, last.email, last.slug) = 1

C3_EnrollIdempotent ==
    [][/\ OnePerPair'
       /\ EnrollMadeBoth'
       /\ \A i \in Slots : (reqs[i].op = "enroll" /\ Acts(i)) =>
            /\ HasDoc(enrollment, reqs[i].email, reqs[i].slug) => enrollment' = enrollment
            /\ HasDoc(progress, reqs[i].email, reqs[i].slug) => progress' = progress
            /\ certificate' = certificate]_vars

C3_Witness ==
    /\ last.op = "enroll" /\ last.status = "ok" /\ Quiet
    /\ LessonsOf(Al, Slug) # {}
    /\ XpOf(Al, Slug) # 0
    /\ Count(enrollment, Al, Slug) = 1

\* C4: there is at most one User record per email, also when the lookup and
\* insert steps of signup, login and google_auth calls interleave.
C4_OneUserPerEmail ==
    \A i, j \in 1..Len(user) : user[i].email = user[j].email => i = j

C6_NotConfigured ==
    (~dbUp /\ last.op \in {"enroll", "complete", "certificate", "dashboard", "me",
                           "signup", "login"})
        => last.status = "NotConfigured"

\* C7: the xp of every Progress record is >= 0 and no step decreases it,
\* whatever integer xp the request body carries.
C7_XpNonNegativeMonotone ==
    [][\A p \in Pairs : XpOf(p[1], p[2])' >= 0 /\ XpOf(p[1], p[2])' >= XpOf(p[1], p[2])]_vars

\* C8: a body step of enroll, complete_lesson or issue_certificate whose
\* validated token subject differs from the body's email answers Forbidden
\* and changes no collection; the records of an email change only in a step
\* of a request whose validated token subject is that email, and a validated
\* subject is the subject of an issued token.
RecordsOf(e) ==
    <<SelectSeq(enrollment, LAMBDA d : d.user_email = e),
      SelectSeq(progress, LAMBDA d : d.user_email = e),
      SelectSeq(certificate, LAMBDA d : d.user_email = e)>>

C8_SubjectMustMatch ==
    [][/\ \A i \in Slots :
            (reqs[i].pc \in {"enrollment", "update", "issue"} /\ Acts(i)
               /\ reqs[i].cur # reqs[i].email) =>
                 (stores' = stores /\ last'.status = "Forbidden" /\ reqs'[i] = Idle)
       /\ \A e \in Emails :
            RecordsOf(e)' # RecordsOf(e) =>
                \E i \in Slots : Acts(i) /\ reqs[i].cur = e /\ reqs[i].email = e
       /\ \A i \in Slots :
            (reqs[i] = Idle /\ reqs'[i].op \in {"enroll", "complete", "certificate"}) =>
                \E t \in issued : t.sub = reqs'[i].cur]_vars

C8_Witness ==
    /\ last.status = "Forbidden" /\ last.email = Bo
    /\ progress # <<>>
    /\ RecordsOf(Bo) = <<<<>>, <<>>, <<>>>>

\* C9: once the complete_lesson calls of a pair have all finished, its
\* lessons_completed is the set of the lesson ids submitted and its xp is the
\* sum of the rewards of all the calls, repeated lesson ids included.
C9_NoLostUpdate ==
    \A p \in Pairs : ~Overlaps(p[1], p[2]) =>
        /\ LessonsOf(p[1], p[2]) = submitted[p]
        /\ XpOf(p[1], p[2]) = granted[p]

C9_Witness ==
    /\ Quiet
    /\ LessonsOf(Al, Slug) = {1}
    /\ XpOf(Al, Slug) = 2 * DefaultXp

\* C10: with no complete_lesson call in flight the stored week_unlocked is
\* the rule's value for some count the pair has had (1 up to the present
\* count), and not always for the present count: the witness is a state at
\* rest whose week_unlocked is the value of a stale count.
C10_WeekFromSomePastCount ==
    \A p \in Pairs : (HasDoc(progress, p[1], p[2]) /\ ~Overlaps(p[1], p[2])
                        /\ submitted[p] # {}) =>
        \E k \in 1..Cardinality(LessonsOf(p[1], p[2])) :
            FindOne(progress, p[1], p[2]).week_unlocked = UnlockRule(k)

C10_Witness ==
    /\ Quiet
    /\ HasDoc(progress, Al, Slug)
    /\ FindOne(progress, Al, Slug).week_unlocked
         # UnlockRule(Cardinality(LessonsOf(Al, Slug)))

=============================================================================
